---- MODULE Spec2Model ----
(***************************************************************************)
(* fable-splitter (src/js/fable-splitter/index.ts): the traversal of the   *)
(* import graph, the allocation of flat output paths and the rewriting of  *)
(* import specifiers.                                                      *)
(*                                                                         *)
(* Strings are sequences of tokens.  "/" is the path separator, ".", ".."  *)
(* and the extensions ".js", ".fs", ".fsx", ".fsproj" are tokens, a digit  *)
(* is a token, and every other token is a run of name characters.          *)
(***************************************************************************)
EXTENDS Integers, Sequences, FiniteSets, TLC

VARIABLES
    info,       \* the CompilationInfo of the run: compiledPaths, dedupOutPaths,
                \* mapInOutPaths and logs
    stack,      \* the chain of pending transformAsync calls, innermost last
    phase,      \* where the promise returned by fableSplitter stands
    result,     \* the value that promise resolved with (NoResult before)
    console,    \* the closing line printed by fableSplitter
    entry,      \* options.entry
    disk,       \* what the file system and the Fable server answered so far
    requests,   \* the paths handed to getFileAstAsync, in order
    written     \* the files written by transformAndSaveAst, in order

vars == << info, stack, phase, result, console, entry, disk, requests, written >>

----------------------------------------------------------------------------
(* Bounds of the model *)

\* the files of the world hold at most this many import declarations in all
MaxDecls == 3

----------------------------------------------------------------------------
(* Strings and paths *)

FSHARP_EXT == {".fs", ".fsx", ".fsproj"}
FSPROJ_EXT == {".fsproj"}
JAVASCRIPT_EXT == {".js"}

\* tokens whose first character is "."
DotInitial == {".", ".."} \cup FSHARP_EXT \cup JAVASCRIPT_EXT

Last(s) == s[Len(s)]
Front(s) == SubSeq(s, 1, Len(s) - 1)

\* RegExp.test for a pattern anchored at the end of the string
Test(ext, s) == Len(s) > 0 /\ Last(s) \in ext

\* String.replace(ext, "")
Strip(ext, s) == IF Test(ext, s) THEN Front(s) ELSE s

\* String.startsWith(".")
StartsWithDot(s) == Len(s) > 0 /\ s[1] \in DotInitial

IsAbsolute(s) == Len(s) > 0 /\ s[1] = "/"

\* Op applied to the value of e.  JavaScript passes values: the argument is
\* evaluated once, before the call, and a bound variable stands for a value.
Call(Op(_), e) == CHOOSE r \in {Op(v) : v \in {e}} : TRUE

\* strings, and sequences of path segments
Str == Seq(STRING)
Segs == Seq(Str)

\* the segments r of the rest of a path, with the token c before them
SplitCons(c, r) ==
    IF c = "/" THEN << <<>> >> \o r ELSE [r EXCEPT ![1] = <<c>> \o @]

\* the segments of a path, split at "/"
Split[s \in Str] ==
    IF s = <<>> THEN << <<>> >> ELSE SplitCons(Head(s), Split[Tail(s)])

\* the segments joined with "/"
Unsplit[segs \in Segs] ==
    IF segs = <<>> THEN <<>>
    ELSE IF Len(segs) = 1 THEN Head(segs)
    ELSE Head(segs) \o <<"/">> \o Unsplit[Tail(segs)]

\* one segment applied to the segments kept so far: "." and the empty segment
\* are dropped, ".." removes the segment before it
NormStep[acc \in Segs, s \in Str, abs \in BOOLEAN] ==
    IF s = <<>> \/ s = <<".">> THEN acc
    ELSE IF s # <<"..">> THEN Append(acc, s)
    ELSE IF acc # <<>> /\ acc[Len(acc)] # <<"..">> THEN SubSeq(acc, 1, Len(acc) - 1)
    ELSE IF abs THEN acc
    ELSE Append(acc, s)

NormSegs[segs \in Segs, acc \in Segs, abs \in BOOLEAN] ==
    IF segs = <<>> THEN acc
    ELSE NormSegs[Tail(segs), NormStep[acc, Head(segs), abs], abs]

\* Path.normalize
Normalized[p \in Str] ==
    IF IsAbsolute(p)
    THEN <<"/">> \o Unsplit[NormSegs[Split[p], <<>>, TRUE]]
    ELSE IF NormSegs[Split[p], <<>>, FALSE] = <<>> THEN <<".">>
    ELSE Unsplit[NormSegs[Split[p], <<>>, FALSE]]

PathNormalize(p) == Normalized[p]

\* Path.join of two strings
PathJoin(a, b) ==
    PathNormalize(IF a = <<>> THEN b
                  ELSE IF b = <<>> THEN a
                  ELSE a \o <<"/">> \o b)

\* process.cwd()
Cwd == <<"/", "p", "/", "src">>

\* Path.resolve of one string
PathResolve(p) ==
    PathNormalize(IF IsAbsolute(p) THEN p ELSE Cwd \o <<"/">> \o p)

\* the position of the last "/" of p, 0 when there is none
LastSlash[p \in Str] ==
    IF p = <<>> THEN 0
    ELSE IF Last(p) = "/" THEN Len(p)
    ELSE LastSlash[Front(p)]

\* Path.dirname
Dirname[p \in Str] ==
    IF LastSlash[p] = 0 THEN <<".">>
    ELSE IF LastSlash[p] = 1 THEN <<"/">>
    ELSE SubSeq(p, 1, LastSlash[p] - 1)

PathDirname(p) == Dirname[p]

\* Path.basename
Basename[p \in Str] == SubSeq(p, LastSlash[p] + 1, Len(p))

PathBasename(p) == Basename[p]

DigitToken == <<"0", "1", "2", "3", "4", "5", "6", "7", "8", "9">>

\* the decimal digits of n, as a template literal prints a number
RECURSIVE Digits(_)
Digits(n) ==
    IF n < 10 THEN <<DigitToken[n + 1]>>
    ELSE Digits(n \div 10) \o <<DigitToken[(n % 10) + 1]>>

----------------------------------------------------------------------------
(* Log mappings: functions from severity labels to sequences of messages *)

NoLogs == [k \in {} |-> <<>>]

\* addLogs(logs, info): same severity appends, a new severity is added
addLogs(new, old) ==
    [k \in DOMAIN old \cup DOMAIN new |->
        IF k \in DOMAIN new
        THEN IF k \in DOMAIN old THEN old[k] \o new[k] ELSE new[k]
        ELSE old[k]]

----------------------------------------------------------------------------
(* Output Namespace Allocator *)

\* a getOutPath that takes the candidate without looking at dedupOutPaths
Dedup_None(newPath, i, dedup) == newPath

\* a dedup loop that increments after it builds the name (`${newPath}${i++}`):
\* newPath, newPath0, newPath1, ...
Dedup_PostIncrement(newPath, i, dedup) ==
    IF newPath \notin dedup THEN newPath
    ELSE newPath \o Digits(CHOOSE n \in 0..Cardinality(dedup) :
                              /\ newPath \o Digits(n) \notin dedup
                              /\ \A m \in 0..(n - 1) : newPath \o Digits(m) \in dedup)

\* the while loop of getOutPath: newPath, newPath1, newPath2, ...
RECURSIVE Dedup(_, _, _)
Dedup(newPath, i, dedup) ==
    IF (IF i = 0 THEN newPath ELSE newPath \o Digits(i)) \notin dedup
    THEN IF i = 0 THEN newPath ELSE newPath \o Digits(i)
    ELSE Dedup(newPath, i + 1, dedup)

\* the candidate of an input path: {parentDirName}/{baseName}
NewPath(srcPath) ==
    PathJoin(PathBasename(PathDirname(srcPath)),
             Strip(JAVASCRIPT_EXT, Strip(FSHARP_EXT, PathBasename(srcPath))))

\* a getOutPath that forgets mapInOutPaths.set (line 101)
Allocated_NotMapped(srcPath, outPath, inf) ==
    [outPath |-> outPath,
     info |-> [inf EXCEPT !.dedupOutPaths = @ \cup {outPath}]]

\* a getOutPath that forgets dedupOutPaths.add (line 100)
Allocated_NotClaimed(srcPath, outPath, inf) ==
    [outPath |-> outPath,
     info |-> [inf EXCEPT !.mapInOutPaths = (srcPath :> outPath) @@ @]]

\* lines 100-101: the new output path is recorded in both collections
Allocated(srcPath, outPath, inf) ==
    [outPath |-> outPath,
     info |-> [inf EXCEPT !.dedupOutPaths = @ \cup {outPath},
                          !.mapInOutPaths = (srcPath :> outPath) @@ @]]

\* a getOutPath that allocates without looking the path up first (line 87)
getOutPath_NoLookup(fullPath, inf) ==
    Call(LAMBDA a :
            Allocated(a.srcPath,
                      Dedup(NewPath(a.srcPath), 0, a.info.dedupOutPaths),
                      a.info),
         [srcPath |-> fullPath, info |-> inf])

\* getOutPath(fullPath, info): the path returned and info after the call
getOutPath(fullPath, inf) ==
    Call(LAMBDA a :
            IF a.srcPath \in DOMAIN a.info.mapInOutPaths
            THEN [outPath |-> a.info.mapInOutPaths[a.srcPath], info |-> a.info]
            ELSE Allocated(a.srcPath,
                           Dedup(NewPath(a.srcPath), 0, a.info.dedupOutPaths),
                           a.info),
         [srcPath |-> fullPath, info |-> inf])

\* getFullPath(relPath)
WithExtension(fullPath) ==
    IF Test(FSHARP_EXT, fullPath) \/ Test(JAVASCRIPT_EXT, fullPath)
    THEN fullPath
    ELSE fullPath \o <<".js">>

getFullPath(relPath) == WithExtension(PathResolve(relPath))

\* lines 119-120: the specifier that points at an output path
Rewritten(r) == [value |-> PathJoin(<<"..">>, r.outPath), info |-> r.info]

\* fixPath(dir, path, info): the new specifier and info after the call
fixPath(dir, path, inf) ==
    IF ~StartsWithDot(path)
    THEN [value |-> path, info |-> inf]
    ELSE Call(Rewritten, getOutPath(getFullPath(PathJoin(dir, path)), inf))

\* line 134: one declaration's specifier is replaced
Assigned(values, r) == [values |-> Append(values, r.value), info |-> r.info]

\* the forEach of fixImportPaths, over the declarations left
RECURSIVE FixEach(_, _, _)
FixEach(dir, decls, acc) ==
    Call(LAMBDA a :
            IF a.decls = <<>> THEN a.acc
            ELSE FixEach(a.dir, Tail(a.decls),
                         Call(LAMBDA r : Assigned(a.acc.values, r),
                              fixPath(a.dir, Head(a.decls), a.acc.info))),
         [dir |-> dir, decls |-> decls, acc |-> acc])

\* fixImportPaths(dir, ast, info): the specifiers of the declarations, rewritten
\* in declaration order, and info after the call
fixImportPaths(dir, decls, inf) == FixEach(dir, decls, [values |-> <<>>, info |-> inf])

\* a getImportPaths that yields the specifiers last declaration first
getImportPaths_Reversed(decls) == [i \in 1..Len(decls) |-> decls[Len(decls) + 1 - i]]

\* getImportPaths(ast): the raw specifiers, in declaration order
getImportPaths(decls) == decls

----------------------------------------------------------------------------
(* The world: files and server answers *)

\* options.outDir
OutDir == <<"/", "out">>

\* the values of options.entry tried
Entries == { <<"a", ".js">>, <<"a", ".fsproj">> }

\* the import specifiers a file may hold
Specifiers ==
    { <<".", "/", "a">>,                                         \* ./a
      <<".", "/", "a", ".fs">>,                                  \* ./a.fs
      <<"..", "/", "..", "/", "q", "/", "src", "/", "a", "1">>,  \* ../../q/src/a1
      <<"react">> }                                              \* react

\* the import declarations of one file
ImportLists ==
    {<<>>} \cup {<<s>> : s \in Specifiers} \cup {<<s, t>> : s, t \in Specifiers}

\* the logs a server answer may carry
ServerLogs ==
    { NoLogs,
      [k \in {"warning"} |-> << <<"w">> >>],
      [k \in {"error"} |-> << <<"e">> >>] }

\* the number of import declarations of the files in the set ps
RECURSIVE Decls(_)
Decls(ps) ==
    IF ps = {} THEN 0
    ELSE LET p == CHOOSE q \in ps : TRUE IN Len(disk[p].imports) + Decls(ps \ {p})

\* the import lists a newly read file may hold
Imports == {l \in ImportLists : Len(l) + Decls(DOMAIN disk) <= MaxDecls}

File(kind, imports, l) == [kind |-> kind, imports |-> imports, logs |-> l]

\* what client.send may answer for an F# path
ServerAnswers ==
    {File("error", <<>>, NoLogs)}
    \cup {File("ast", i, l) : i \in Imports, l \in ServerLogs}

\* what the file system may hold at a JS path
LocalFiles ==
    {File("missing", <<>>, NoLogs), File("syntax", <<>>, NoLogs)}
    \cup {File("ast", i, NoLogs) : i \in Imports}

----------------------------------------------------------------------------
(* Graph Traversal Engine *)

NoResult == -1

Frame(pc, path, decls, todo) ==
    [pc |-> pc, path |-> path, decls |-> decls, todo |-> todo]

Top == stack[Len(stack)]
ReplaceTop(f) == [stack EXCEPT ![Len(stack)] = f]
Running == phase = "running" /\ stack # <<>>

\* a CompilationInfo kept at module level: the output paths of an earlier run
\* are still claimed
NewInfo_Leftover ==
    [compiledPaths |-> {}, dedupOutPaths |-> {<<"src", "/", "a">>},
     mapInOutPaths |-> NoLogs, logs |-> NoLogs]

\* lines 233-238: the CompilationInfo a run starts with
NewInfo ==
    [compiledPaths |-> {}, dedupOutPaths |-> {}, mapInOutPaths |-> NoLogs,
     logs |-> NoLogs]

Init ==
    /\ entry \in Entries
    /\ info = NewInfo
    /\ stack = << Frame("call", entry, <<>>, <<>>) >>
    /\ phase = "running"
    /\ result = NoResult
    /\ console = "fable: Compiling..."
    /\ disk = NoLogs
    /\ requests = <<>>
    /\ written = <<>>

\* the innermost call returns to its caller
Return == SubSeq(stack, 1, Len(stack) - 1)

\* a transformAsync without the return of line 197
AlreadyCompiled_NoReturn ==
    /\ Running
    /\ Top.pc = "call"
    /\ getFullPath(Top.path) \in info.compiledPaths
    /\ stack' = ReplaceTop(Frame("ast", getFullPath(Top.path), <<>>, <<>>))
    /\ UNCHANGED << info, phase, result, console, entry, disk, requests, written >>

\* transformAsync, lines 195-198: the path was compiled already, do nothing
AlreadyCompiled ==
    /\ Running
    /\ Top.pc = "call"
    /\ getFullPath(Top.path) \in info.compiledPaths
    /\ stack' = Return
    /\ UNCHANGED << info, phase, result, console, entry, disk, requests, written >>

\* a transformAsync that forgets compiledPaths.add (line 199)
Marked_NotAdded(fullPath) ==
    /\ info' = info
    /\ stack' = ReplaceTop(Frame("ast", fullPath, <<>>, <<>>))

\* lines 199-202: the path is marked and its AST is asked for
Marked(fullPath) ==
    /\ info' = [info EXCEPT !.compiledPaths = @ \cup {fullPath}]
    /\ stack' = ReplaceTop(Frame("ast", fullPath, <<>>, <<>>))

\* transformAsync, lines 195-199: a new path is marked as compiled
MarkCompiled ==
    /\ Running
    /\ Top.pc = "call"
    /\ \E fullPath \in {getFullPath(Top.path)} :
        /\ fullPath \notin info.compiledPaths
        /\ Marked(fullPath)
    /\ UNCHANGED << phase, result, console, entry, disk, requests, written >>

\* the path getFileAstAsync reads in its JS branch (line 151)
LocalPath(path) == IF Test(JAVASCRIPT_EXT, path) THEN path ELSE path \o <<".js">>

\* what is found at a path: what was found there before, or any file
Answers(path, any) == IF path \in DOMAIN disk THEN {disk[path]} ELSE any

\* getFileAstAsync is entered for the path of the innermost call
Requested(fsharp) ==
    /\ Running
    /\ Top.pc = "ast"
    /\ Test(FSHARP_EXT, Top.path) = fsharp
    /\ requests' = Append(requests, Top.path)

\* the answer f was found at the path
Found(path, f) == disk' = (path :> f) @@ disk

\* a getFileAstAsync that swallows the error of the server: the visit ends as
\* for a missing file, and the traversal goes on
ServerError_Swallowed ==
    /\ Requested(TRUE)
    /\ \E f \in Answers(Top.path, ServerAnswers) :
        /\ f.kind = "error"
        /\ Found(Top.path, f)
    /\ stack' = Return
    /\ UNCHANGED << info, phase, result, console, entry, written >>

\* getFileAstAsync, lines 139-146: the server answers with an error, or the
\* request fails; the exception unwinds every pending transformAsync
ServerError ==
    /\ Requested(TRUE)
    /\ \E f \in Answers(Top.path, ServerAnswers) :
        /\ f.kind = "error"
        /\ Found(Top.path, f)
    /\ stack' = <<>>
    /\ phase' = "rejected"
    /\ UNCHANGED << info, result, console, entry, written >>

\* getFileAstAsync, lines 139-148: the server answers with an AST and logs
ServerAst ==
    /\ Requested(TRUE)
    /\ \E f \in Answers(Top.path, ServerAnswers) :
        /\ f.kind = "ast"
        /\ Found(Top.path, f)
        /\ info' = [info EXCEPT !.logs = addLogs(f.logs, @)]
        /\ stack' = ReplaceTop(Frame("fix", Top.path, f.imports, <<>>))
    /\ UNCHANGED << phase, result, console, entry, written >>

\* getFileAstAsync, lines 151-155: the JS file exists and parses
LocalAst ==
    /\ Requested(FALSE)
    /\ \E f \in Answers(LocalPath(Top.path), LocalFiles) :
        /\ f.kind = "ast"
        /\ Found(LocalPath(Top.path), f)
        /\ stack' = ReplaceTop(Frame("fix", Top.path, f.imports, <<>>))
    /\ UNCHANGED << info, phase, result, console, entry, written >>

\* the log line of a parse failure (line 157)
BabelLog(path) == path \o <<"(1,1): error BABEL: ", "SyntaxError">>

\* getFileAstAsync, lines 156-159, then transformAsync, line 203: the JS file
\* exists and does not parse; there is no AST and the visit ends
LocalSyntaxError ==
    /\ Requested(FALSE)
    /\ \E f \in Answers(LocalPath(Top.path), LocalFiles) :
        /\ f.kind = "syntax"
        /\ Found(LocalPath(Top.path), f)
    /\ info' = [info EXCEPT !.logs =
                  addLogs([k \in {"error"} |-> <<BabelLog(LocalPath(Top.path))>>], @)]
    /\ stack' = Return
    /\ UNCHANGED << phase, result, console, entry, written >>

\* a getFileAstAsync that reports a missing file as an error
LocalMissing_Logged ==
    /\ Requested(FALSE)
    /\ \E f \in Answers(LocalPath(Top.path), LocalFiles) :
        /\ f.kind = "missing"
        /\ Found(LocalPath(Top.path), f)
    /\ info' = [info EXCEPT !.logs =
                  addLogs([k \in {"error"} |-> <<BabelLog(LocalPath(Top.path))>>], @)]
    /\ stack' = Return
    /\ UNCHANGED << phase, result, console, entry, written >>

\* getFileAstAsync, lines 161-163, then transformAsync, line 203: the JS file
\* does not exist; there is no AST and the visit ends
LocalMissing ==
    /\ Requested(FALSE)
    /\ \E f \in Answers(LocalPath(Top.path), LocalFiles) :
        /\ f.kind = "missing"
        /\ Found(LocalPath(Top.path), f)
    /\ stack' = Return
    /\ UNCHANGED << info, phase, result, console, entry, written >>

\* a transformAndSaveAst that writes at the candidate, not at the path allocated
OutFile_Candidate(fullPath, decls, r) ==
    [file |-> [src |-> fullPath,
               jsPath |-> PathJoin(OutDir, NewPath(fullPath) \o <<".js">>),
               imports |-> decls],
     info |-> r.info]

\* lines 170-171 and 188: the file written
OutFile(fullPath, decls, r) ==
    [file |-> [src |-> fullPath,
               jsPath |-> PathJoin(OutDir, r.outPath \o <<".js">>),
               imports |-> decls],
     info |-> r.info]

\* transformAndSaveAst(fullPath, ast, options, info): the file written and info
\* after the call
transformAndSaveAst(fullPath, decls, inf) ==
    Call(LAMBDA r : OutFile(fullPath, decls, r), getOutPath(fullPath, inf))

\* lines 209-211: the file is saved
Saved(saved) ==
    /\ written' = Append(written, saved.file)
    /\ info' = saved.info

\* a transformAsync without the test of line 209: every file is saved
Fixed_AlwaysSaved(fullPath, fixed) ==
    /\ \E saved \in {transformAndSaveAst(fullPath, fixed.values, fixed.info)} :
            Saved(saved)
    /\ stack' = ReplaceTop(Frame("loop", fullPath, fixed.values,
                                 getImportPaths(Top.decls)))

\* lines 206-211: with the imports rewritten, the file is saved unless it is a
\* .fsproj
Fixed(fullPath, fixed) ==
    /\ IF ~Test(FSPROJ_EXT, fullPath)
       THEN \E saved \in {transformAndSaveAst(fullPath, fixed.values, fixed.info)} :
                Saved(saved)
       ELSE written' = written /\ info' = fixed.info
    /\ stack' = ReplaceTop(Frame("loop", fullPath, fixed.values,
                                 getImportPaths(Top.decls)))

\* transformAsync, lines 203-211: the imports are collected and rewritten, and
\* the file is saved unless it is a .fsproj
FixAndSave ==
    /\ Running
    /\ Top.pc = "fix"
    /\ \E fixed \in {fixImportPaths(PathDirname(Top.path), Top.decls, info)} :
            Fixed(Top.path, fixed)
    /\ UNCHANGED << phase, result, console, entry, disk, requests >>

\* lines 216-217: transformAsync is called for an import
Called(f, relPath) ==
    stack' = Append(ReplaceTop([f EXCEPT !.todo = Tail(@)]),
                    Frame("call", relPath, <<>>, <<>>))

\* transformAsync, lines 214-217: the next import is visited
VisitImport ==
    /\ Running
    /\ Top.pc = "loop"
    /\ Top.todo # <<>>
    /\ \E relPath \in {PathJoin(PathDirname(Top.path), Head(Top.todo))} :
            Called(Top, relPath)
    /\ UNCHANGED << info, phase, result, console, entry, disk, requests, written >>

\* transformAsync, lines 215-220: every import was visited, the visit ends
VisitDone ==
    /\ Running
    /\ Top.pc = "loop"
    /\ Top.todo = <<>>
    /\ stack' = Return
    /\ UNCHANGED << info, phase, result, console, entry, disk, requests, written >>

\* a hasError that looks at every severity
hasError_AnySeverity == DOMAIN info.logs # {}

\* line 248
hasError == "error" \in DOMAIN info.logs /\ Len(info.logs["error"]) > 0

\* line 250: the number the run resolves with
statusCode(failed) == IF failed THEN 0 ELSE 1

\* lines 249-250: the closing line and the number
Reported(failed) ==
    /\ console' = IF failed THEN "fable: Compilation failed"
                            ELSE "fable: Compilation succeeded"
    /\ result' = statusCode(failed)

\* fableSplitter, lines 243-251: the traversal ended without an exception
Then ==
    /\ phase = "running"
    /\ stack = <<>>
    /\ Reported(hasError)
    /\ phase' = "done"
    /\ UNCHANGED << info, stack, entry, disk, requests, written >>

\* line 257: the number the run resolves with after an exception
errorCode == 1

\* fableSplitter, lines 252-258: an exception escaped the traversal
Catch ==
    /\ phase = "rejected"
    /\ console' = "ERROR"
    /\ result' = errorCode
    /\ phase' = "done"
    /\ UNCHANGED << info, stack, entry, disk, requests, written >>

Next ==
    \/ AlreadyCompiled
    \/ MarkCompiled
    \/ ServerError
    \/ ServerAst
    \/ LocalAst
    \/ LocalSyntaxError
    \/ LocalMissing
    \/ FixAndSave
    \/ VisitImport
    \/ VisitDone
    \/ Then
    \/ Catch

Spec == Init /\ [][Next]_vars

\* the event loop runs every continuation that is ready, and the file system
\* and the server answer every request
FairSpec == Spec /\ WF_vars(Next)

----------------------------------------------------------------------------
(* Vocabulary of the properties *)

Map == info.mapInOutPaths

\* the files that yielded an AST
AstFiles == {p \in DOMAIN disk : disk[p].kind = "ast"}

\* the files of the given kind
FilesOf(kind) == {p \in DOMAIN disk : disk[p].kind = kind}

\* the input path the specifier s of file f stands for
Target(f, s) == getFullPath(PathJoin(PathDirname(f), s))

Indexes(seq) == 1..Len(seq)

WrittenSources == {written[k].src : k \in Indexes(written)}

\* the input paths some file with an AST names by a relative specifier
RelativeTargets ==
    {Target(f[1], disk[f[1]].imports[f[2]]) :
        f \in {g \in AstFiles \X (1..2) :
                 /\ g[2] <= Len(disk[g[1]].imports)
                 /\ StartsWithDot(disk[g[1]].imports[g[2]])}}

\* the input paths some file with an AST names by any specifier
AllTargets ==
    {Target(f[1], disk[f[1]].imports[f[2]]) :
        f \in {g \in AstFiles \X (1..2) : g[2] <= Len(disk[g[1]].imports)}}

ErrorBucket == IF "error" \in DOMAIN info.logs THEN info.logs["error"] ELSE <<>>

IsPrefix(p, msg) == Len(p) <= Len(msg) /\ SubSeq(msg, 1, Len(p)) = p

\* the run ended, and not by an exception
Completed == phase = "done" /\ console # "ERROR"

\* the run ended by an exception
Aborted == phase = "done" /\ console = "ERROR"

NoRepeat(seq) == \A i, j \in Indexes(seq) : i # j => seq[i] # seq[j]

----------------------------------------------------------------------------
(* C1 *)

IsSuffixed(p) ==
    \E n \in 1..Cardinality(DOMAIN Map) : Map[p] = NewPath(p) \o Digits(n)

\* C1: in every reachable state two distinct input paths with an entry in
\* mapInOutPaths have different output paths, and an input path holds its
\* candidate {parentDirName}/{baseName} unless another input path holds that
\* candidate, in which case it holds the candidate with a numeric suffix.
C1_Injective ==
    \A p \in DOMAIN Map :
        /\ \A q \in DOMAIN Map : p # q => Map[p] # Map[q]
        /\ IF \E q \in DOMAIN Map : q # p /\ Map[q] = NewPath(p)
           THEN IsSuffixed(p)
           ELSE Map[p] = NewPath(p)

\* two files of the same name in different directories both have an entry
C1_Collision ==
    \E p, q \in DOMAIN Map :
        /\ PathDirname(p) # PathDirname(q)
        /\ NewPath(p) = NewPath(q)
        /\ IsSuffixed(q)

----------------------------------------------------------------------------
(* C2 *)

\* C2: a specifier that does not start with "." is left as it is in the file
\* written, and the path it would resolve to is never marked as compiled,
\* never handed to getFileAstAsync and never written.
C2_ExternalUntouched ==
    \A f \in AstFiles : \A i \in Indexes(disk[f].imports) :
        ~StartsWithDot(disk[f].imports[i]) =>
            /\ \A k \in Indexes(written) :
                  written[k].src = f => written[k].imports[i] = disk[f].imports[i]
            /\ Target(f, disk[f].imports[i]) \notin info.compiledPaths
            /\ \A k \in Indexes(requests) :
                  requests[k] # Target(f, disk[f].imports[i])
            /\ Target(f, disk[f].imports[i]) \notin WrittenSources

----------------------------------------------------------------------------
(* C3 *)

C3_OnceEach ==
    /\ NoRepeat(requests)
    /\ NoRepeat([k \in Indexes(written) |-> written[k].src])
    /\ NoRepeat([k \in Indexes(written) |-> written[k].jsPath])

\* C3: whatever the import graph, cycles and self-imports included, the run
\* ends, and no input path is handed to getFileAstAsync twice or written twice.
C3_Terminates == []C3_OnceEach /\ <>(phase = "done")

\* a run ended after compiling two files that import each other
C3_CycleDone ==
    /\ Completed
    /\ \E f, g \in AstFiles :
        /\ f # g
        /\ \E i \in Indexes(disk[f].imports) : Target(f, disk[f].imports[i]) = g
        /\ \E i \in Indexes(disk[g].imports) : Target(g, disk[g].imports[i]) = f
        /\ {f, g} \subseteq WrittenSources

----------------------------------------------------------------------------
(* C4 *)

\* C4: a call of transformAsync for a path that is in compiledPaths returns at
\* once: nothing is asked of the backend, nothing is written and info is as
\* it was.
C4_RevisitNoOp ==
    [][(Running /\ Top.pc = "call" /\ getFullPath(Top.path) \in info.compiledPaths)
         => /\ stack' = Return
            /\ info' = info
            /\ requests' = requests
            /\ written' = written
            /\ disk' = disk]_vars

\* a run ended in which more calls of transformAsync were made than paths
\* were compiled: some call found its path compiled already
C4_Revisited ==
    /\ Completed
    /\ 1 + Decls(AstFiles) > Cardinality(info.compiledPaths)

----------------------------------------------------------------------------
(* C5 *)

----------------------------------------------------------------------------
(* C6 *)

\* C6: an entry of mapInOutPaths is never changed or removed, getOutPath for
\* a path that has an entry returns the entry and leaves info as it is, and
\* dedupOutPaths grows only by the paths of new entries.
C6_Stable ==
    [][/\ \A p \in DOMAIN Map :
            /\ p \in DOMAIN Map'
            /\ Map'[p] = Map[p]
            /\ getOutPath(p, info) = [outPath |-> Map[p], info |-> info]
       /\ Cardinality(info.dedupOutPaths') - Cardinality(info.dedupOutPaths)
            = Cardinality(DOMAIN Map') - Cardinality(DOMAIN Map)]_vars

\* a file was written whose output path had been allocated before, when a
\* file written earlier imported it
C6_AskedAgain ==
    \E i, j \in Indexes(written) :
        /\ i < j
        /\ \E k \in Indexes(disk[written[i].src].imports) :
            /\ StartsWithDot(disk[written[i].src].imports[k])
            /\ Target(written[i].src, disk[written[i].src].imports[k]) = written[j].src
            /\ written[i].imports[k] = PathJoin(<<"..">>, Map[written[j].src])

----------------------------------------------------------------------------
(* C7 *)

\* C7: a run that ended by an exception resolves with the number of a failed
\* run, not with the number of a run that ended without errors.
C7_AbortIsFailure ==
    Aborted => result = statusCode(TRUE) /\ result # statusCode(FALSE)

----------------------------------------------------------------------------
(* C8 *)

\* an error was reported to the run: a parse failure, or a server answer
\* with entries under "error"
ErrorsReported ==
    \E p \in DOMAIN disk :
        \/ disk[p].kind = "syntax"
        \/ /\ disk[p].kind = "ast"
           /\ "error" \in DOMAIN disk[p].logs
           /\ disk[p].logs["error"] # <<>>

\* C8: a run that ends without an exception reports "failed" exactly if the
\* error bucket holds an entry, which it does exactly if an error was
\* reported, and "succeeded" otherwise; the numbers of the two cases differ.
C8_FailedIffErrors ==
    Completed =>
        /\ console \in {"fable: Compilation failed", "fable: Compilation succeeded"}
        /\ console = "fable: Compilation failed" <=> ErrorBucket # <<>>
        /\ ErrorBucket # <<>> <=> ErrorsReported
        /\ result = IF ErrorBucket # <<>> THEN statusCode(TRUE) ELSE statusCode(FALSE)
        /\ statusCode(TRUE) # statusCode(FALSE)

\* a run failed on the logs of the server alone, and its bucket also holds
\* what another answer added
C8_FailedByServerLogs ==
    /\ Completed
    /\ console = "fable: Compilation failed"
    /\ FilesOf("syntax") = {}
    /\ DOMAIN info.logs = {"error", "warning"}

----------------------------------------------------------------------------
(* C9 *)

ErrorsNaming(p) == {i \in Indexes(ErrorBucket) : IsPrefix(p, ErrorBucket[i])}

\* what C9 says of the file itself and of its siblings
C9_Recovered ==
    \A p \in FilesOf("syntax") :
        /\ Cardinality(ErrorsNaming(p)) = 1
        /\ p \notin WrittenSources
        /\ p \notin AstFiles
        /\ Completed => AllTargets \subseteq info.compiledPaths
        /\ Completed => \A q \in AllTargets \cap AstFiles :
                            Test(FSPROJ_EXT, q) \/ q \in WrittenSources

\* C9: a JS file that does not parse adds one entry naming it to the error
\* bucket, is not written, has no imports followed, does not stop the visits
\* of its siblings, and the run ends with the number of a failed run.
C9_SyntaxErrorFails ==
    phase = "done" =>
        /\ C9_Recovered
        /\ FilesOf("syntax") # {} => result = statusCode(TRUE)

----------------------------------------------------------------------------
(* C10 *)

C10_State ==
    /\ \A p \in FilesOf("missing") :
        /\ p \notin WrittenSources
        /\ p \notin AstFiles
        /\ ErrorsNaming(p) = {}
    /\ Completed => AllTargets \subseteq info.compiledPaths
    /\ Completed => \A q \in AllTargets \cap AstFiles :
                        Test(FSPROJ_EXT, q) \/ q \in WrittenSources
    /\ (phase = "done" /\ getFullPath(entry) \in FilesOf("missing")) =>
        /\ written = <<>>
        /\ console = "fable: Compilation succeeded"
        /\ result = statusCode(FALSE)

C10_Step ==
    (/\ Running
     /\ Top.pc = "ast"
     /\ ~Test(FSHARP_EXT, Top.path)
     /\ LocalPath(Top.path) \in DOMAIN disk'
     /\ disk'[LocalPath(Top.path)].kind = "missing")
    => /\ stack' = Return
       /\ info' = info
       /\ written' = written

\* C10: a JS file that does not exist ends its visit: nothing is written for
\* it, no import is followed, nothing is added to the logs, the visits of its
\* siblings go on, and a run whose entry is missing writes nothing and
\* succeeds.
C10_MissingTolerated == []C10_State /\ [][C10_Step]_vars

\* a run ended in which a file imports a missing file and then a file that
\* was written
C10_MissingThenSibling ==
    /\ Completed
    /\ \E f \in AstFiles :
        /\ Len(disk[f].imports) = 2
        /\ Target(f, disk[f].imports[1]) \in FilesOf("missing")
        /\ Target(f, disk[f].imports[2]) \in WrittenSources \ {f}

----------------------------------------------------------------------------
(* C11 *)

\* the files whose imports were rewritten, with the specifiers they hold now:
\* the files written, and the files whose dependencies are being visited
Rewrites ==
    {[src |-> written[k].src, imports |-> written[k].imports] :
        k \in Indexes(written)}
    \cup {[src |-> stack[k].path, imports |-> stack[k].decls] :
            k \in {j \in Indexes(stack) : stack[j].pc = "loop"}}

\* C11: every relative specifier of a file whose imports were rewritten reads
\* "../" followed by the output path mapInOutPaths holds for its target, the
\* same for every importer, and a file is written under outDir at the output
\* path mapInOutPaths holds for it, followed by ".js".
C11_Consistent ==
    /\ \A r \in Rewrites : \A i \in Indexes(disk[r.src].imports) :
          StartsWithDot(disk[r.src].imports[i]) =>
            \E t \in {Target(r.src, disk[r.src].imports[i])} :
                /\ t \in DOMAIN Map
                /\ r.imports[i] = <<"..", "/">> \o Map[t]
    /\ \A k \in Indexes(written) :
          /\ written[k].src \in DOMAIN Map
          /\ written[k].jsPath = OutDir \o <<"/">> \o Map[written[k].src] \o <<".js">>

\* a file was written under a suffixed path that an importer written before
\* it names, and that a file rewritten after its visit began names as well
C11_BeforeAndAfter ==
    \E i, j, k \in Indexes(written) :
        /\ i < j
        /\ j <= k
        /\ Map[written[j].src] # NewPath(written[j].src)
        /\ \E n \in Indexes(disk[written[i].src].imports) :
            /\ StartsWithDot(disk[written[i].src].imports[n])
            /\ Target(written[i].src, disk[written[i].src].imports[n]) = written[j].src
        /\ \E n \in Indexes(disk[written[k].src].imports) :
            /\ StartsWithDot(disk[written[k].src].imports[n])
            /\ Target(written[k].src, disk[written[k].src].imports[n]) = written[j].src

----------------------------------------------------------------------------
(* C12 *)

\* the paths of the output files
WrittenPaths == {written[k].jsPath : k \in Indexes(written)}

\* C12: when a run has ended without an exception, every rewritten relative
\* specifier of a written file, resolved from the directory of that file,
\* names a file that was written.
C12_ReferencesWritten ==
    Completed =>
        \A k \in Indexes(written) :
            \A i \in Indexes(disk[written[k].src].imports) :
                StartsWithDot(disk[written[k].src].imports[i]) =>
                    PathJoin(PathDirname(written[k].jsPath), written[k].imports[i])
                        \o <<".js">> \in WrittenPaths

----------------------------------------------------------------------------
(* C13 *)

\* the import declarations of the files read that name the path p
Importers(p) ==
    {f \in AstFiles \X (1..2) :
        /\ f[2] <= Len(disk[f[1]].imports)
        /\ Target(f[1], disk[f[1]].imports[f[2]]) = p}

C13_State ==
    /\ \A k \in Indexes(stack) :
          stack[k].pc \in {"ast", "fix", "loop"} =>
              stack[k].path \in info.compiledPaths
    /\ \A k \in Indexes(requests) : requests[k] \in info.compiledPaths
    /\ NoRepeat(requests)

C13_Step ==
    /\ requests' # requests =>
          /\ Top.path \in info.compiledPaths
          /\ requests' = Append(requests, Top.path)
    /\ Len(stack') > Len(stack) =>
          /\ Top.path \in info.compiledPaths
          /\ \E k \in Indexes(requests) : requests[k] = Top.path

\* C13: a path is in compiledPaths while getFileAstAsync is pending for it and
\* when it is asked for, a dependency is visited only from a path that is in
\* compiledPaths and was asked for, and no path is asked for twice.
C13_MarkedFirst == []C13_State /\ [][C13_Step]_vars

\* a run ended in which the server was asked for an F# file that two import
\* declarations name
C13_AskedOnce ==
    /\ Completed
    /\ \E k \in Indexes(requests) :
        /\ Test(FSHARP_EXT, requests[k])
        /\ Cardinality(Importers(requests[k])) >= 2

----------------------------------------------------------------------------
(* C14 *)

Range(seq) == {seq[k] : k \in Indexes(seq)}

\* the depth-first walk of the files read, imports in declaration order:
\* Walk(path, seen) is seen followed by the paths first met when path is
\* visited after the paths of seen
RECURSIVE Walk(_, _), WalkEach(_, _, _)
Walk(path, seen) ==
    Call(LAMBDA a :
            IF a.full \in Range(a.seen) THEN a.seen
            ELSE IF a.full \in AstFiles
                 THEN WalkEach(PathDirname(a.full), disk[a.full].imports,
                               Append(a.seen, a.full))
                 ELSE Append(a.seen, a.full),
         [full |-> getFullPath(path), seen |-> seen])

WalkEach(dir, decls, seen) ==
    Call(LAMBDA a :
            IF a.decls = <<>> THEN a.seen
            ELSE WalkEach(a.dir, Tail(a.decls),
                          Walk(PathJoin(a.dir, Head(a.decls)), a.seen)),
         [dir |-> dir, decls |-> decls, seen |-> seen])

\* the first place of x in seq
Place(seq, x) == CHOOSE k \in Indexes(seq) : seq[k] = x /\ \A j \in 1..(k - 1) : seq[j] # x

IsOutput(p) == p \in AstFiles /\ ~Test(FSPROJ_EXT, p)

C14_State ==
    /\ \A k \in Indexes(stack) :
          k < Len(stack) =>
              /\ stack[k].pc = "loop"
              /\ Test(FSPROJ_EXT, stack[k].path) \/ stack[k].path \in WrittenSources
    /\ Completed =>
          /\ requests = Walk(entry, <<>>)
          /\ [k \in Indexes(written) |-> written[k].src] = SelectSeq(requests, IsOutput)

C14_Step ==
    /\ Len(stack') > Len(stack) =>
          /\ Top.pc = "loop"
          /\ Test(FSPROJ_EXT, Top.path) \/ Top.path \in WrittenSources
          /\ Top.todo # <<>>
          /\ Top.todo = SubSeq(disk[Top.path].imports,
                               Len(disk[Top.path].imports) - Len(Top.todo) + 1,
                               Len(disk[Top.path].imports))
          /\ stack' = Append(ReplaceTop([Top EXCEPT !.todo = Tail(@)]),
                             Frame("call", PathJoin(PathDirname(Top.path), Head(Top.todo)),
                                   <<>>, <<>>))
    /\ (Len(stack') <= Len(stack) /\ stack' # <<>>) =>
          SubSeq(stack', 1, Len(stack') - 1) = SubSeq(stack, 1, Len(stack') - 1)

\* C14: the imports of a file are visited one after the other in declaration
\* order, each only when the visit of the one before it, with everything it
\* reaches, has returned, and only after the file's imports were rewritten and
\* the file was written; a completed run asked for the files in the order of
\* the depth-first walk and wrote them in that order.
C14_DepthFirst == []C14_State /\ [][C14_Step]_vars

\* a run ended in which a file has two imports, the first of which imports a
\* further file, and that file was asked for before the second import
C14_Nested ==
    /\ Completed
    /\ \E f, d \in AstFiles : \E e, z \in Range(requests) :
        /\ Cardinality({f, d, e, z}) = 4
        /\ Len(disk[f].imports) = 2
        /\ Target(f, disk[f].imports[1]) = d
        /\ Target(f, disk[f].imports[2]) = e
        /\ Len(disk[d].imports) = 1
        /\ Target(d, disk[d].imports[1]) = z
        /\ Place(requests, d) < Place(requests, z)
        /\ Place(requests, z) < Place(requests, e)

----------------------------------------------------------------------------
(* C15 *)

\* the input paths the specifiers of the world can name
Sources ==
    {getFullPath(e) : e \in Entries}
    \cup {getFullPath(PathJoin(d, sp)) :
            d \in {Cwd, <<"/", "q", "/", "src">>}, sp \in Specifiers}

\* the candidate {parentDirName}/{baseName} of each of them
Candidate == [p \in Sources |-> NewPath(p)]

\* r is what allocation of the new path p with candidate c owes, from inf
AllocatesSmallest(p, c, r, inf) ==
    /\ c \notin inf.dedupOutPaths => r.outPath = c
    /\ c \in inf.dedupOutPaths =>
          \E n \in 1..Cardinality(inf.dedupOutPaths) :
              /\ r.outPath = c \o Digits(n)
              /\ r.outPath \notin inf.dedupOutPaths
              /\ \A m \in 1..(n - 1) : c \o Digits(m) \in inf.dedupOutPaths
    /\ r.info.dedupOutPaths = inf.dedupOutPaths \cup {r.outPath}
    /\ DOMAIN r.info.mapInOutPaths = DOMAIN inf.mapInOutPaths \cup {p}
    /\ r.info.mapInOutPaths[p] = r.outPath
    /\ \A q \in DOMAIN inf.mapInOutPaths :
          r.info.mapInOutPaths[q] = inf.mapInOutPaths[q]
    /\ r.info.compiledPaths = inf.compiledPaths
    /\ r.info.logs = inf.logs

\* C15: in every state a run reaches, getOutPath for an input path without an
\* entry returns the candidate if no path holds it, and otherwise the
\* candidate followed by the smallest number from 1 on that yields a path
\* nobody holds, and records the path returned in dedupOutPaths and in
\* mapInOutPaths.
C15_SmallestSuffix ==
    \A p \in Sources \ DOMAIN Map :
        AllocatesSmallest(p, Candidate[p], getOutPath(p, info), info)

\* a path got the suffix 2 because the candidate followed by 1 is held by a
\* file of that very name, and a further path of the same candidate has no
\* entry yet
C15_SecondSuffix ==
    /\ \E p, q \in DOMAIN Map :
        /\ Map[p] = NewPath(p) \o <<"2">>
        /\ NewPath(q) = NewPath(p) \o <<"1">>
        /\ Map[q] = NewPath(q)
        /\ \E x \in Sources \ DOMAIN Map : NewPath(x) = NewPath(p)

----------------------------------------------------------------------------
(* C16 *)

\* C16: of two input paths with the same candidate that both have an entry,
\* the one whose visit began first holds the candidate and the other a
\* suffixed path, and the entry file holds its candidate.
C16_VisitOrder ==
    /\ \A x, y \in DOMAIN Map \cap Range(requests) :
          (/\ x # y
           /\ NewPath(x) = NewPath(y)
           /\ Place(requests, x) < Place(requests, y))
          => (Map[x] = NewPath(x) /\ Map[y] # NewPath(y))
    /\ getFullPath(entry) \in DOMAIN Map =>
          Map[getFullPath(entry)] = NewPath(getFullPath(entry))

----------------------------------------------------------------------------
(* C17 *)

\* the specifier sp of file f as fixPath leaves it
Expected(f, sp) ==
    IF StartsWithDot(sp) THEN <<"..", "/">> \o Map[Target(f, sp)] ELSE sp

C17_State ==
    /\ \A k \in Indexes(written) : ~Test(FSPROJ_EXT, written[k].src)
    /\ \A k \in Indexes(stack) :
          (stack[k].pc = "loop" /\ Test(FSPROJ_EXT, stack[k].path)) =>
              /\ Len(stack[k].decls) = Len(disk[stack[k].path].imports)
              /\ \A i \in Indexes(stack[k].decls) :
                    /\ StartsWithDot(disk[stack[k].path].imports[i]) =>
                          Target(stack[k].path, disk[stack[k].path].imports[i])
                              \in DOMAIN Map
                    /\ stack[k].decls[i] =
                          Expected(stack[k].path, disk[stack[k].path].imports[i])
    /\ Completed =>
          \A p \in AstFiles : Test(FSPROJ_EXT, p) =>
              \A i \in Indexes(disk[p].imports) :
                  Target(p, disk[p].imports[i]) \in info.compiledPaths

C17_Step ==
    (Running /\ Top.pc = "fix" /\ Test(FSPROJ_EXT, Top.path)) =>
        /\ written' = written
        /\ Len(stack') = Len(stack)
        /\ stack'[Len(stack')].pc = "loop"
        /\ stack'[Len(stack')].todo = disk[Top.path].imports

\* C17: a .fsproj that yields an AST has its specifiers rewritten and all its
\* imports visited, and is never written.
C17_MarkerNotWritten == []C17_State /\ [][C17_Step]_vars

\* a run ended whose entry is a .fsproj with an AST and a relative import
\* that was written
C17_ProjectCompiled ==
    /\ Completed
    /\ \E p \in AstFiles :
        /\ Test(FSPROJ_EXT, p)
        /\ \E i \in Indexes(disk[p].imports) :
            /\ StartsWithDot(disk[p].imports[i])
            /\ Target(p, disk[p].imports[i]) \in WrittenSources

----------------------------------------------------------------------------
(* C18 *)

C18_State ==
    FilesOf("error") # {} => (phase # "running" /\ stack = <<>>)

C18_Step ==
    /\ (\E p \in DOMAIN disk' \ DOMAIN disk : disk'[p].kind = "error") =>
          /\ stack' = <<>>
          /\ phase' = "rejected"
          /\ info' = info
          /\ written' = written
    /\ FilesOf("error") # {} =>
          /\ info' = info
          /\ written' = written
          /\ requests' = requests
          /\ disk' = disk
          /\ stack' = <<>>

\* C18: the step in which the server answers with an error drops every
\* pending transformAsync and changes neither info nor the files written,
\* and from then on nothing is asked for, compiled, allocated or written.
C18_AbortsChain == []C18_State /\ [][C18_Step]_vars

\* a run ended by an error of the server two calls deep: the files written
\* before are there, and the second import of the entry was never visited
C18_SiblingSkipped ==
    /\ Aborted
    /\ \E f, d \in WrittenSources :
        /\ f # d
        /\ Len(disk[f].imports) = 2
        /\ Target(f, disk[f].imports[1]) = d
        /\ Target(f, disk[f].imports[2]) \notin info.compiledPaths
        /\ \E i \in Indexes(disk[d].imports) :
              Target(d, disk[d].imports[i]) \in FilesOf("error")

----------------------------------------------------------------------------
(* C19 *)

\* The outcome of a run as a function of the entry and of the files read
\* alone: the run as one recursive computation from a fresh CompilationInfo,
\* with no step, no suspension and no other run in it.
Fresh ==
    [info |-> [compiledPaths |-> {}, dedupOutPaths |-> {},
               mapInOutPaths |-> NoLogs, logs |-> NoLogs],
     requests |-> <<>>, written |-> <<>>, failed |-> FALSE]

AfterSave(full, r, st) ==
    IF Test(FSPROJ_EXT, full)
    THEN [st EXCEPT !.info = r.info]
    ELSE Call(LAMBDA saved :
                 [st EXCEPT !.info = saved.info,
                            !.written = Append(@, saved.file)],
              transformAndSaveAst(full, r.values, r.info))

RECURSIVE Go(_, _), GoEach(_, _, _)
Arrived(full, st) ==
    CASE disk[full].kind = "error" -> [st EXCEPT !.failed = TRUE]
      [] disk[full].kind = "missing" -> st
      [] disk[full].kind = "syntax" ->
            [st EXCEPT !.info.logs =
                addLogs([k \in {"error"} |-> <<BabelLog(full)>>], @)]
      [] disk[full].kind = "ast" ->
            GoEach(PathDirname(full), disk[full].imports,
                   Call(LAMBDA r : AfterSave(full, r, st),
                        fixImportPaths(PathDirname(full), disk[full].imports,
                            [st.info EXCEPT !.logs = addLogs(disk[full].logs, @)])))

Go(path, st) ==
    Call(LAMBDA a :
            IF a.st.failed \/ a.full \in a.st.info.compiledPaths THEN a.st
            ELSE Arrived(a.full,
                         [a.st EXCEPT !.info.compiledPaths = @ \cup {a.full},
                                      !.requests = Append(@, a.full)]),
         [full |-> getFullPath(path), st |-> st])

GoEach(dir, decls, st) ==
    Call(LAMBDA a :
            IF a.decls = <<>> THEN a.st
            ELSE GoEach(a.dir, Tail(a.decls),
                        Go(PathJoin(a.dir, Head(a.decls)), a.st)),
         [dir |-> dir, decls |-> decls, st |-> st])

SameOutcome(r) ==
    /\ info = r.info
    /\ requests = r.requests
    /\ written = r.written
    /\ Aborted <=> r.failed

----------------------------------------------------------------------------
(* C20 *)

\* C20: dedupOutPaths is the set of the output paths mapInOutPaths holds.
C20_ClaimedIsMapped == info.dedupOutPaths = {Map[p] : p \in DOMAIN Map}

\* three input paths have an entry, one of them under a suffixed path
C20_Several ==
    /\ Cardinality(DOMAIN Map) >= 3
    /\ Cardinality(info.dedupOutPaths) >= 3
    /\ \E p \in DOMAIN Map : Map[p] # NewPath(p)

====
